---------------------------- MODULE Spec2Model ----------------------------
(***************************************************************************)
(* Model of the Multipass token codec of lib/index.js: the constructor,    *)
(* sign, encrypt, generateToken and generateLoginUrl.                      *)
(*                                                                         *)
(* Strings are sequences of one-character strings; a Buffer is a sequence  *)
(* of bytes (0..255).  The node primitives the class calls (SHA-256, HMAC, *)
(* AES-128-CBC, randomBytes, JSON.stringify, URL, encodeURIComponent,      *)
(* Date) are modelled by what they do at the sizes the code relies on:     *)
(* 32-byte digests, 16-byte blocks with PKCS#7 padding and CBC chaining,   *)
(* RFC 4648 base64.  The digest and the block permutation themselves are   *)
(* small arithmetic stand-ins with the same shape (deterministic, keyed,   *)
(* the block permutation invertible).                                      *)
(***************************************************************************)
EXTENDS Integers, Sequences, FiniteSets, TLC

VARIABLES constructed, args, encryptionKey, signatureKey, storeUrl,
          customerData, result, issued, mutations

vars == <<constructed, args, encryptionKey, signatureKey, storeUrl,
          customerData, result, issued, mutations>>

(***************************************************************************)
(* Bounds of the model.                                                    *)
(***************************************************************************)
MaxClock == 1
MaxMutations == 2

(***************************************************************************)
(* Sizes fixed by the code.                                                *)
(***************************************************************************)
KeyLen == 16
IvLen == 16
BlockLen == 16
HashLen == 32
HmacBlockLen == 64

(***************************************************************************)
(* Characters and bytes.                                                   *)
(***************************************************************************)
Ascii ==
  << " ", "!", "\"", "#", "$", "%", "&", "'", "(", ")", "*", "+", ",", "-", ".", "/",
     "0", "1", "2", "3", "4", "5", "6", "7", "8", "9", ":", ";", "<", "=", ">", "?",
     "@", "A", "B", "C", "D", "E", "F", "G", "H", "I", "J", "K", "L", "M", "N", "O",
     "P", "Q", "R", "S", "T", "U", "V", "W", "X", "Y", "Z", "[", "\\", "]", "^", "_",
     "grave", "a", "b", "c", "d", "e", "f", "g", "h", "i", "j", "k", "l", "m", "n", "o",
     "p", "q", "r", "s", "t", "u", "v", "w", "x", "y", "z", "{", "|", "}", "~" >>

Chars == {Ascii[i] : i \in 1..Len(Ascii)}

\* The code point of an ASCII character (32..126); the entry "grave" stands for
\* code 96, which a string literal cannot hold.
Ord == [c \in Chars |-> 31 + (CHOOSE i \in 1..Len(Ascii) : Ascii[i] = c)]

\* Buffer.from(s, 'utf8') for an ASCII string: one byte per character.
Utf8(s) == [i \in 1..Len(s) |-> Ord[s[i]]]

\* buf.toString('utf8'): a byte outside printable ASCII is shown as "?".
FromUtf8(b) == [i \in 1..Len(b) |-> IF b[i] \in 32..126 THEN Ascii[b[i] - 31] ELSE "?"]

RECURSIVE Xor(_, _, _)
Xor(a, b, n) ==
  IF n = 0 THEN 0
  ELSE (((a % 2) + (b % 2)) % 2) + (2 * Xor(a \div 2, b \div 2, n - 1))

\* The bitwise exclusive or of two bytes, tabulated once.
XorTable == [a \in 0..255 |-> [b \in 0..255 |-> Xor(a, b, 8)]]

XorByte(a, b) == XorTable[a][b]

Slice(s, from, to) == SubSeq(s, from + 1, to)

Repeat(x, n) == [i \in 1..n |-> x]

(***************************************************************************)
(* crypto.createHash('sha256'): a deterministic digest of HashLen bytes.   *)
(***************************************************************************)
\* The digest state: a position-weighted sum of the bytes, taken four at a time
\* and folded by halves.
Weigh(bytes, i) ==
  IF i > Len(bytes) THEN 0 ELSE (bytes[i] + 1) * ((i * i * 31) + (7 * i) + 1)

RECURSIVE Absorb(_, _, _)
Absorb(bytes, lo, hi) ==
  IF lo > hi THEN 0
  ELSE IF hi - lo < 4
  THEN (Weigh(bytes, lo) + Weigh(bytes, lo + 1) + Weigh(bytes, lo + 2) + Weigh(bytes, lo + 3)) % 65521
  ELSE LET mid == lo + (4 * ((((hi - lo) \div 4) + 1) \div 2)) - 1
       IN  (Absorb(bytes, lo, mid) + Absorb(bytes, mid + 1, hi)) % 65521

SHA256(bytes) ==
  LET h == (Absorb(bytes, 1, Len(bytes)) + 5381 + Len(bytes)) % 65521
  IN  [i \in 1..HashLen |->
         (((((h + 1) * ((2 * i) + 1) * 75) + (i * i * 13) + 74) % 65537) \div 7) % 256]

(***************************************************************************)
(* crypto.createHmac('SHA256', key).update(data).digest()                  *)
(***************************************************************************)
HmacSHA256(key, data) ==
  LET k0   == key \o Repeat(0, HmacBlockLen - Len(key))
      ipad == [i \in 1..HmacBlockLen |-> XorByte(k0[i], 54)]
      opad == [i \in 1..HmacBlockLen |-> XorByte(k0[i], 92)]
  IN  SHA256(opad \o SHA256(ipad \o data))

(***************************************************************************)
(* crypto.createCipheriv('aes-128-cbc', key, iv): update + final.          *)
(***************************************************************************)
Pkcs7Pad(bytes) ==
  LET n == BlockLen - (Len(bytes) % BlockLen)
  IN  bytes \o Repeat(n, n)

\* The keyed block permutation (stand-in for the AES rounds).
BlockEncrypt(key, block) ==
  [i \in 1..BlockLen |-> (XorByte(block[(i % BlockLen) + 1], key[i]) + (7 * i)) % 256]

RECURSIVE CbcBlocks(_, _, _, _)
CbcBlocks(key, prev, padded, j) ==
  IF j * BlockLen >= Len(padded) THEN <<>>
  ELSE LET p == Slice(padded, j * BlockLen, (j + 1) * BlockLen)
           c == BlockEncrypt(key, [i \in 1..BlockLen |-> XorByte(p[i], prev[i])])
       IN  c \o CbcBlocks(key, c, padded, j + 1)

Aes128CbcEncrypt(key, iv, plaintext) == CbcBlocks(key, iv, Pkcs7Pad(plaintext), 0)

(***************************************************************************)
(* Buffer.toString('base64'): RFC 4648 with '=' padding.                   *)
(***************************************************************************)
B64 ==
  << "A", "B", "C", "D", "E", "F", "G", "H", "I", "J", "K", "L", "M", "N", "O", "P",
     "Q", "R", "S", "T", "U", "V", "W", "X", "Y", "Z", "a", "b", "c", "d", "e", "f",
     "g", "h", "i", "j", "k", "l", "m", "n", "o", "p", "q", "r", "s", "t", "u", "v",
     "w", "x", "y", "z", "0", "1", "2", "3", "4", "5", "6", "7", "8", "9", "+", "/" >>

\* The k-th character (1-based) of the base64 text of b.
Base64Char(b, k) ==
  LET g  == (k - 1) \div 4
      j  == (k - 1) % 4
      n  == Len(b) - (3 * g)
      b1 == b[(3 * g) + 1]
      b2 == IF n >= 2 THEN b[(3 * g) + 2] ELSE 0
      b3 == IF n >= 3 THEN b[(3 * g) + 3] ELSE 0
  IN  IF j = 0 THEN B64[(b1 \div 4) + 1]
      ELSE IF j = 1 THEN B64[((b1 % 4) * 16) + (b2 \div 16) + 1]
      ELSE IF j = 2 THEN (IF n >= 2 THEN B64[((b2 % 16) * 4) + (b3 \div 64) + 1] ELSE "=")
      ELSE (IF n >= 3 THEN B64[(b3 % 64) + 1] ELSE "=")

Base64(b) == [k \in 1..(4 * ((Len(b) + 2) \div 3)) |-> Base64Char(b, k)]

\* String.prototype.replace(/x/g, y) for a one-character pattern.
ReplaceAll(s, x, y) == [i \in 1..Len(s) |-> IF s[i] = x THEN y ELSE s[i]]

\* String.prototype.replace(/x/g, '').
RemoveAll(s, x) == SelectSeq(s, LAMBDA c : c # x)

(***************************************************************************)
(* JavaScript values.  Every value is a record [t, s, c]: t the kind, s    *)
(* the text of a string, number or boolean, c the properties of an object  *)
(* or array in insertion order, each [k |-> name, v |-> value]; an array's *)
(* elements are the properties named <<>>.  "circular" is a property that  *)
(* refers back to the object holding it.                                   *)
(***************************************************************************)
Str(s) == [t |-> "string", s |-> s, c |-> <<>>]
Num(s) == [t |-> "number", s |-> s, c |-> <<>>]
Bool(b) == [t |-> "boolean", s |-> IF b THEN <<"t", "r", "u", "e">> ELSE <<"f", "a", "l", "s", "e">>, c |-> <<>>]
Null == [t |-> "null", s |-> <<>>, c |-> <<>>]
Undefined == [t |-> "undefined", s |-> <<>>, c |-> <<>>]
Circular == [t |-> "circular", s |-> <<>>, c |-> <<>>]
Obj(props) == [t |-> "object", s |-> <<>>, c |-> props]
Arr(elems) == [t |-> "array", s |-> <<>>, c |-> [i \in 1..Len(elems) |-> [k |-> <<>>, v |-> elems[i]]]]
Prop(k, v) == [k |-> k, v |-> v]

\* typeof v
TypeOf(v) == IF v.t \in {"object", "array", "null", "circular"} THEN "object" ELSE v.t

\* !!v
Truthy(v) ==
  IF v.t = "string" THEN v.s # <<>>
  ELSE IF v.t = "number" THEN v.s # <<"0">>
  ELSE IF v.t = "boolean" THEN v.s = <<"t", "r", "u", "e">>
  ELSE v.t \in {"object", "array", "circular"}

HasProp(o, k) == \E i \in 1..Len(o.c) : o.c[i].k = k

\* o[k]
GetProp(o, k) ==
  IF HasProp(o, k) THEN o.c[CHOOSE i \in 1..Len(o.c) : o.c[i].k = k].v ELSE Undefined

\* o[k] = v: an own property keeps its place, a new one goes last.
SetProp(o, k, v) ==
  IF HasProp(o, k)
  THEN [o EXCEPT !.c = [i \in 1..Len(o.c) |-> IF o.c[i].k = k THEN Prop(k, v) ELSE o.c[i]]]
  ELSE [o EXCEPT !.c = Append(o.c, Prop(k, v))]

(***************************************************************************)
(* JSON.stringify                                                          *)
(***************************************************************************)
\* The concatenation of the sequences of parts, by halves.
RECURSIVE FlattenRange(_, _, _)
FlattenRange(parts, lo, hi) ==
  IF lo > hi THEN <<>>
  ELSE IF lo = hi THEN parts[lo]
  ELSE LET mid == (lo + hi) \div 2
       IN  FlattenRange(parts, lo, mid) \o FlattenRange(parts, mid + 1, hi)

Flatten(parts) == FlattenRange(parts, 1, Len(parts))

\* Array.prototype.join(',')
Join(parts) ==
  Flatten([i \in 1..Len(parts) |-> IF i = 1 THEN parts[i] ELSE <<",">> \o parts[i]])

Quote(s) ==
  <<"\"">> \o Flatten([i \in 1..Len(s) |->
                 IF s[i] \in {"\"", "\\"} THEN <<"\\", s[i]>> ELSE <<s[i]>>]) \o <<"\"">>

RECURSIVE HasCycle(_)
HasCycle(v) == v.t = "circular" \/ \E i \in 1..Len(v.c) : HasCycle(v.c[i].v)

RECURSIVE Serialize(_)
Serialize(v) ==
  IF v.t = "string" THEN Quote(v.s)
  ELSE IF v.t \in {"number", "boolean"} THEN v.s
  ELSE IF v.t = "object" THEN
    LET kept == SelectSeq(v.c, LAMBDA p : p.k # <<>> /\ p.v.t # "undefined")
    IN  <<"{">> \o Join([i \in 1..Len(kept) |->
                      Quote(kept[i].k) \o <<":">> \o Serialize(kept[i].v)]) \o <<"}">>
  ELSE IF v.t = "array" THEN
    LET elems == SelectSeq(v.c, LAMBDA p : p.k = <<>>)
    IN  <<"[">> \o Join([i \in 1..Len(elems) |-> Serialize(elems[i].v)]) \o <<"]">>
  ELSE <<"n", "u", "l", "l">>

\* JSON.stringify(v): throws on a circular structure, returns undefined for undefined.
JSONstringify(v) ==
  [throws |-> HasCycle(v), defined |-> v.t # "undefined",
   text |-> IF HasCycle(v) \/ v.t = "undefined" THEN <<>> ELSE Serialize(v)]

\* new Date().toISOString() at clock second n of the model's day.
ToISOString(n) ==
  <<"2", "0", "2", "6", "-", "1", "1", "-", "0", "5", "T", "0", "0", ":", "0", "0", ":",
    Ascii[17 + (n \div 10)], Ascii[17 + (n % 10)], ".", "0", "0", "0", "Z">>

(***************************************************************************)
(* String.prototype.trim and encodeURIComponent                            *)
(***************************************************************************)
\* The first index >= from of s holding a character of set, or Len(s) + 1.
FindFirst(s, set, from) ==
  IF \E i \in from..Len(s) : s[i] \in set
  THEN CHOOSE i \in from..Len(s) : s[i] \in set /\ \A j \in from..(i - 1) : s[j] \notin set
  ELSE Len(s) + 1

\* The last index of s holding a character of set, or 0.
FindLast(s, set) ==
  IF \E i \in 1..Len(s) : s[i] \in set
  THEN CHOOSE i \in 1..Len(s) : s[i] \in set /\ \A j \in (i + 1)..Len(s) : s[j] \notin set
  ELSE 0

Trim(s) ==
  LET first == FindFirst(s, Chars \ {" "}, 1)
      last  == FindLast(s, Chars \ {" "})
  IN  IF first > Len(s) THEN <<>> ELSE SubSeq(s, first, last)

Digits == {"0", "1", "2", "3", "4", "5", "6", "7", "8", "9"}
Upper == {Ascii[i] : i \in 34..59}
Lower == {Ascii[i] : i \in 66..91}
Alpha == Upper \cup Lower
HexDigits == <<"0", "1", "2", "3", "4", "5", "6", "7", "8", "9", "A", "B", "C", "D", "E", "F">>

PercentEncode(c) == <<"%", HexDigits[(Ord[c] \div 16) + 1], HexDigits[(Ord[c] % 16) + 1]>>

\* The characters encodeURIComponent leaves alone.
UriUnreserved == Alpha \cup Digits \cup {"-", "_", ".", "!", "~", "*", "'", "(", ")"}

EncodeURIComponent(s) ==
  Flatten([i \in 1..Len(s) |-> IF s[i] \in UriUnreserved THEN <<s[i]>> ELSE PercentEncode(s[i])])

(***************************************************************************)
(* The URL class: new URL(input), new URL(input, base) and toString().     *)
(* Hosts are kept as written (the inputs of the model are lower-case       *)
(* ASCII and hold no dot segments).                                        *)
(***************************************************************************)
SchemeChars == Alpha \cup Digits \cup {"+", "-", "."}
SpecialSchemes == {<<"h", "t", "t", "p">>, <<"h", "t", "t", "p", "s">>, <<"f", "t", "p">>,
                   <<"w", "s">>, <<"w", "s", "s">>}
ForbiddenHostChars == {" ", "#", "/", "<", ">", "?", "@", "[", "\\", "]", "^", "|", "%", ":"}
\* The characters the path state percent-encodes.
PathEncodeSet == {" ", "\"", "#", "<", ">", "?", "grave", "{", "}"}

DefaultPort(scheme) ==
  IF scheme \in {<<"h", "t", "t", "p">>, <<"w", "s">>} THEN <<"8", "0">>
  ELSE IF scheme \in {<<"h", "t", "t", "p", "s">>, <<"w", "s", "s">>} THEN <<"4", "4", "3">>
  ELSE IF scheme = <<"f", "t", "p">> THEN <<"2", "1">>
  ELSE <<>>

InvalidURL ==
  [ok |-> FALSE, scheme |-> <<>>, userinfo |-> <<>>, hasHost |-> FALSE, host |-> <<>>,
   port |-> <<>>, opaque |-> FALSE, path |-> <<>>, query |-> <<>>, fragment |-> <<>>]

\* The path, query and fragment of the text that follows the authority.
ParsePathOn(url, rest, special) ==
  LET q    == FindFirst(rest, {"?", "#"}, 1)
      h    == FindFirst(rest, {"#"}, 1)
      raw  == SubSeq(rest, 1, q - 1)
      path == Flatten([i \in 1..Len(raw) |->
                 IF raw[i] \in PathEncodeSet THEN PercentEncode(raw[i])
                 ELSE IF special /\ raw[i] = "\\" THEN <<"/">> ELSE <<raw[i]>>])
  IN  [url EXCEPT !.path = IF path = <<>> /\ special THEN <<"/">> ELSE path,
                  !.query = IF q < h THEN SubSeq(rest, q + 1, h - 1) ELSE <<>>,
                  !.fragment = SubSeq(rest, h + 1, Len(rest))]

\* The authority (userinfo@host:port) and what follows it.
ParseAuthorityOn(url, rest, special) ==
  LET stop     == FindFirst(rest, IF special THEN {"/", "\\", "?", "#"} ELSE {"/", "?", "#"}, 1)
      auth     == SubSeq(rest, 1, stop - 1)
      at       == FindLast(auth, {"@"})
      hostport == SubSeq(auth, at + 1, Len(auth))
      colon    == FindFirst(hostport, {":"}, 1)
      host     == SubSeq(hostport, 1, colon - 1)
      port     == SubSeq(hostport, colon + 1, Len(hostport))
  IN  IF (special /\ host = <<>>)
         \/ (\E i \in 1..Len(host) : host[i] \in ForbiddenHostChars)
         \/ (\E i \in 1..Len(port) : port[i] \notin Digits)
      THEN InvalidURL
      ELSE ParsePathOn([url EXCEPT !.hasHost = TRUE,
                                   !.userinfo = SubSeq(auth, 1, at - 1),
                                   !.host = host,
                                   !.port = IF port = DefaultPort(url.scheme) THEN <<>> ELSE port],
                       SubSeq(rest, stop, Len(rest)), special)

\* new URL(input): the basic URL parser without a base.
ParseURL(input) ==
  LET s       == Trim(input)
      colon   == FindFirst(s, Chars \ SchemeChars, 1)
      scheme  == SubSeq(s, 1, colon - 1)
      rest    == SubSeq(s, colon + 1, Len(s))
      special == scheme \in SpecialSchemes
      url     == [InvalidURL EXCEPT !.ok = TRUE, !.scheme = scheme]
      slashes == FindFirst(rest, Chars \ {"/", "\\"}, 1) - 1
  IN  IF colon > Len(s) \/ s[colon] # ":" \/ scheme = <<>> \/ s[1] \notin Alpha
      THEN InvalidURL
      ELSE IF special THEN ParseAuthorityOn(url, SubSeq(rest, slashes + 1, Len(rest)), TRUE)
      ELSE IF Len(rest) >= 2 /\ rest[1] = "/" /\ rest[2] = "/"
           THEN ParseAuthorityOn(url, SubSeq(rest, 3, Len(rest)), FALSE)
      ELSE IF Len(rest) >= 1 /\ rest[1] = "/" THEN ParsePathOn(url, rest, FALSE)
      ELSE [ParsePathOn(url, rest, FALSE) EXCEPT !.opaque = TRUE]

\* new URL(path, base) for an input that starts with one "/": the base's scheme
\* and authority with the input's path; a base with an opaque path cannot be a base.
ResolvePath(path, base) ==
  IF base.opaque THEN InvalidURL
  ELSE ParsePathOn([base EXCEPT !.path = <<>>, !.query = <<>>, !.fragment = <<>>],
                   path, base.scheme \in SpecialSchemes)

\* url.toString()
Href(url) ==
  url.scheme \o <<":">>
  \o (IF url.hasHost
      THEN <<"/", "/">> \o (IF url.userinfo = <<>> THEN <<>> ELSE url.userinfo \o <<"@">>)
           \o url.host \o (IF url.port = <<>> THEN <<>> ELSE <<":">> \o url.port)
      ELSE <<>>)
  \o url.path
  \o (IF url.query = <<>> THEN <<>> ELSE <<"?">> \o url.query)
  \o (IF url.fragment = <<>> THEN <<>> ELSE <<"#">> \o url.fragment)

(***************************************************************************)
(* Outcomes of a call: a return value or a thrown error, the primitives    *)
(* and console lines of the call in order, the token generateToken made,   *)
(* and the argument object as the call leaves it.                          *)
(***************************************************************************)
Returns(value, events, token, data) ==
  [threw |-> FALSE, name |-> "", message |-> "", value |-> value,
   events |-> events, token |-> token, data |-> data]

Throws(name, message, events, data) ==
  [threw |-> TRUE, name |-> name, message |-> message, value |-> <<>>,
   events |-> events, token |-> <<>>, data |-> data]

\* What a failing primitive throws.
PrimitiveError(primitive) == primitive

\* The instance a method runs on.
This == [encryptionKey |-> encryptionKey, signatureKey |-> signatureKey, storeUrl |-> storeUrl]

(***************************************************************************)
(* constructor(multipassSecret, storeUrl).  hashFault is the state of the  *)
(* crypto module: "none", "unavailable" or "badLength".                    *)
(***************************************************************************)
NoInstance == [encryptionKey |-> <<>>, signatureKey |-> <<>>, storeUrl |-> InvalidURL]

ConstructorThrows(message, events) ==
  [threw |-> TRUE, name |-> "Error", message |-> message, events |-> events, this |-> NoInstance]

\* A mutant of ValidateArguments: the storeUrl is validated before the secret.
ValidateUrlFirst(multipassSecret, url) ==
  IF TypeOf(url) # "string" \/ Len(Trim(url.s)) = 0
  THEN ConstructorThrows("Invalid storeUrl: Expected a non-empty string.", <<>>)
  ELSE IF ~ParseURL(url.s).ok
  THEN ConstructorThrows("Invalid storeUrl: Must be a valid URL string.", <<"URL">>)
  ELSE IF TypeOf(multipassSecret) # "string" \/ Len(Trim(multipassSecret.s)) = 0
  THEN ConstructorThrows("Invalid multipassSecret: Expected a non-empty string.", <<"URL">>)
  ELSE [ConstructorThrows("", <<"URL">>) EXCEPT !.threw = FALSE, !.name = ""]

\* Lines 41-56: the checks of the two arguments, in the order the code makes them.
ValidateArguments(multipassSecret, url) ==
  IF TypeOf(multipassSecret) # "string" \/ Len(Trim(multipassSecret.s)) = 0
  THEN ConstructorThrows("Invalid multipassSecret: Expected a non-empty string.", <<>>)
  ELSE IF TypeOf(url) # "string" \/ Len(Trim(url.s)) = 0
  THEN ConstructorThrows("Invalid storeUrl: Expected a non-empty string.", <<>>)
  ELSE IF ~ParseURL(url.s).ok
  THEN ConstructorThrows("Invalid storeUrl: Must be a valid URL string.", <<"URL">>)
  ELSE [ConstructorThrows("", <<"URL">>) EXCEPT !.threw = FALSE, !.name = ""]

\* A mutant of DeriveKeys: the two halves of the hash are swapped.
DeriveKeysSwapped(hash) ==
  [encryptionKey |-> Slice(hash, 16, 32), signatureKey |-> Slice(hash, 0, 16)]

\* Lines 68-70: the two keys are the two halves of the hash.
DeriveKeys(hash) ==
  [encryptionKey |-> Slice(hash, 0, 16), signatureKey |-> Slice(hash, 16, 32)]

constructor(multipassSecret, url, hashFault) ==
  IF ValidateArguments(multipassSecret, url).threw
  THEN ValidateArguments(multipassSecret, url)
  ELSE IF hashFault = "unavailable"
  THEN ConstructorThrows("Crypto module is unavailable or improperly configured.", <<"URL">>)
  ELSE LET hash == IF hashFault = "badLength"
                   THEN Slice(SHA256(Utf8(multipassSecret.s)), 0, 20)
                   ELSE SHA256(Utf8(multipassSecret.s))
       IN  IF Len(hash) # HashLen
           THEN ConstructorThrows("Unexpected hash length. Ensure SHA-256 is supported.",
                                  <<"URL", "createHash">>)
           ELSE [threw |-> FALSE, name |-> "", message |-> "",
                 events |-> <<"URL", "createHash">>,
                 this |-> [encryptionKey |-> DeriveKeys(hash).encryptionKey,
                           signatureKey |-> DeriveKeys(hash).signatureKey,
                           storeUrl |-> ParseURL(url.s)]]

(***************************************************************************)
(* sign(ciphertext).  An argument is [kind, bytes]; fault names the        *)
(* primitive that throws during the call, or "none".                       *)
(***************************************************************************)
IsBuffer(x) == x.kind = "Buffer"

\* A mutant of sign: the HMAC is keyed with the encryption key.
signWithEncryptionKey(this, ciphertext, fault) ==
  IF ~IsBuffer(ciphertext)
  THEN Throws("TypeError", "Expected 'ciphertext' to be a Buffer", <<>>, Undefined)
  ELSE IF fault = "createHmac"
  THEN Throws("Error", PrimitiveError("createHmac"),
              <<"createHmac", "console.error: An error occurred while signing:">>, Undefined)
  ELSE Returns(HmacSHA256(this.encryptionKey, ciphertext.bytes),
               <<"createHmac", "hmac.update", "hmac.digest">>, <<>>, Undefined)

sign(this, ciphertext, fault) ==
  IF ~IsBuffer(ciphertext)
  THEN Throws("TypeError", "Expected 'ciphertext' to be a Buffer", <<>>, Undefined)
  ELSE IF fault = "createHmac"
  THEN Throws("Error", PrimitiveError("createHmac"),
              <<"createHmac", "console.error: An error occurred while signing:">>, Undefined)
  ELSE Returns(HmacSHA256(this.signatureKey, ciphertext.bytes),
               <<"createHmac", "hmac.update", "hmac.digest">>, <<>>, Undefined)

(***************************************************************************)
(* encrypt(customerData).  iv is what crypto.randomBytes(16) returns.      *)
(***************************************************************************)
EncryptRethrows(name, message, events, customerData_) ==
  Throws(name, message, Append(events, "console.error: Encryption failed:"), customerData_)

\* A mutant of EncryptedBuffer: the IV that randomBytes returned is not used.
EncryptedBufferFixedIv(this, iv, text) ==
  Repeat(0, IvLen) \o Aes128CbcEncrypt(this.encryptionKey, Repeat(0, IvLen), Utf8(text))

\* Lines 110-117: the IV, then the ciphertext of the text under the IV.
EncryptedBuffer(this, iv, text) ==
  iv \o Aes128CbcEncrypt(this.encryptionKey, iv, Utf8(text))

encrypt(this, customerData_, iv, fault) ==
  IF TypeOf(customerData_) # "object" \/ customerData_.t = "null"
  THEN EncryptRethrows("Error", "Invalid input: customerData must be a non-null object",
                       <<>>, customerData_)
  ELSE IF fault = "randomBytes"
  THEN EncryptRethrows("Error", PrimitiveError("randomBytes"), <<"randomBytes">>, customerData_)
  ELSE IF fault = "createCipheriv"
  THEN EncryptRethrows("Error", PrimitiveError("createCipheriv"),
                       <<"randomBytes", "createCipheriv">>, customerData_)
  ELSE IF JSONstringify(customerData_).throws
  THEN EncryptRethrows("TypeError", "Converting circular structure to JSON",
                       <<"randomBytes", "createCipheriv", "JSON.stringify">>, customerData_)
  ELSE IF fault = "cipher"
  THEN EncryptRethrows("Error", PrimitiveError("cipher"),
                       <<"randomBytes", "createCipheriv", "JSON.stringify", "cipher.update">>,
                       customerData_)
  ELSE Returns(EncryptedBuffer(this, iv, JSONstringify(customerData_).text),
               <<"randomBytes", "createCipheriv", "JSON.stringify", "cipher.update",
                 "cipher.final">>,
               <<>>, customerData_)

(***************************************************************************)
(* generateToken(customerData).  now is the clock new Date() reads.        *)
(***************************************************************************)
created_at == <<"c", "r", "e", "a", "t", "e", "d", "_", "a", "t">>

\* A mutant of EnsureCreatedAt: created_at is stamped on every call.
AlwaysStamp(customerData_, now) == SetProp(customerData_, created_at, Str(ToISOString(now)))

\* Lines 133-136: the created_at the call encrypts.
EnsureCreatedAt(customerData_, now) ==
  IF ~Truthy(GetProp(customerData_, created_at))
  THEN SetProp(customerData_, created_at, Str(ToISOString(now)))
  ELSE customerData_

\* A mutant of Base64Url: plain base64.
Base64Plain(buffer) == Base64(buffer)

\* A mutant of Assemble: the signature comes first.
AssembleSignatureFirst(ciphertext, signature) == signature \o ciphertext

\* Line 146: Buffer.concat([ciphertext, signature])
Assemble(ciphertext, signature) == ciphertext \o signature

\* Line 147: base64, then the URL-safe alphabet without padding.
Base64Url(buffer) ==
  RemoveAll(ReplaceAll(ReplaceAll(Base64(buffer), "+", "-"), "/", "_"), "=")

\* A mutant of TokenFails: the catch block returns an empty token.
TokenFailsSilently(events, data) ==
  Returns(<<>>, Append(events, "console.error: Error during token generation:"), <<>>, data)

\* Lines 150-154: the catch block of generateToken.
TokenFails(events, data) ==
  Throws("Error", "Token generation failed",
         Append(events, "console.error: Error during token generation:"), data)

generateToken(this, customerData_, now, iv, fault) ==
  IF TypeOf(customerData_) # "object" \/ customerData_.t = "null"
  THEN Throws("TypeError", "customerData must be a non-null object", <<>>, customerData_)
  ELSE LET data       == EnsureCreatedAt(customerData_, now)
           dated      == IF data = customerData_ THEN <<>> ELSE <<"Date.toISOString">>
           ciphertext == encrypt(this, data, iv, fault)
           signature  == sign(this, [kind |-> "Buffer", bytes |-> ciphertext.value], fault)
           buffer     == Assemble(ciphertext.value, signature.value)
           token      == Base64Url(buffer)
       IN  IF ciphertext.threw THEN TokenFails(dated \o ciphertext.events, data)
           ELSE IF signature.threw
           THEN TokenFails(dated \o ciphertext.events \o signature.events, data)
           ELSE Returns(token, dated \o ciphertext.events \o signature.events, token, data)

(***************************************************************************)
(* generateLoginUrl(customerData)                                          *)
(***************************************************************************)
LoginPath == <<"/", "a", "c", "c", "o", "u", "n", "t", "/", "l", "o", "g", "i", "n", "/",
               "m", "u", "l", "t", "i", "p", "a", "s", "s", "/">>

\* A mutant of RejectsCustomerData: the typeof test is left out.
RejectsFalsyOnly(customerData_) == ~Truthy(customerData_)

\* Line 159: !customerData || typeof customerData !== 'object'
RejectsCustomerData(customerData_) ==
  ~Truthy(customerData_) \/ TypeOf(customerData_) # "object"

generateLoginUrl(this, customerData_, now, iv, fault) ==
  IF RejectsCustomerData(customerData_)
  THEN Throws("Error", "Invalid customerData: Expected a non-empty object", <<>>, customerData_)
  ELSE LET made == generateToken(this, customerData_, now, iv, fault)
           path == LoginPath \o EncodeURIComponent(made.value)
           url  == ResolvePath(path, this.storeUrl)
       IN  IF made.threw THEN made
           ELSE IF made.value = <<>>
           THEN Throws("Error", "Invalid token generated: Expected a non-empty string",
                       made.events, made.data)
           ELSE IF ~url.ok
           THEN Throws("Error", "Failed to construct login URL: Invalid URL",
                       made.events \o <<"encodeURIComponent", "URL">>, made.data)
           ELSE Returns(Href(url), made.events \o <<"encodeURIComponent", "URL">>,
                        made.token, made.data)

(***************************************************************************)
(* The inputs of the model.                                                *)
(***************************************************************************)
email == <<"e", "m", "a", "i", "l">>
Mail == Str(<<"a", "@", "b", ".", "c">>)
Address == Obj(<<Prop(<<"c", "i", "t", "y">>, Str(<<"X">>)),
                 Prop(<<"d", "e", "f", "a", "u", "l", "t">>, Bool(TRUE))>>)

\* The argument objects a caller builds.
CustomerObjects ==
  { Obj(<<Prop(email, Mail)>>),
    Obj(<<Prop(email, Mail), Prop(created_at, Str(<<"2", "0", "2", "0">>))>>),
    Obj(<<Prop(created_at, Str(<<>>)), Prop(email, Mail)>>),
    Obj(<<Prop(created_at, Num(<<"0">>)), Prop(email, Mail)>>),
    Obj(<<Prop(email, Str(<<"a", "\"", "b">>)),
          Prop(<<"t", "a", "g">>, Undefined),
          Prop(<<"a", "d", "d", "r", "e", "s", "s", "e", "s">>, Arr(<<Address>>))>>),
    Arr(<<>>),
    Obj(<<Prop(email, Mail), Prop(<<"s", "e", "l", "f">>, Circular)>>) }

\* Arguments that are no objects.
Primitives == {Null, Undefined, Str(<<"a", "@", "b">>), Num(<<"5">>), Bool(TRUE)}

SecretArgs ==
  { Str(<<"m", "u", "l", "t", "i", "p", "a", "s", "s", "-", "s", "e", "c", "r", "e", "t">>),
    Str(<<>>), Str(<<" ", " ">>), Num(<<"5">>), Undefined }

UrlArgs ==
  { Str(<<"h", "t", "t", "p", ":", "/", "/", "s", "h", "o", "p", ".", "i", "o", ":", "8", "0",
          "8", "0", "/", "b", "/", "p", "?", "x", "=", "1", "#", "f">>),
    Str(<<"m", "a", "i", "l", "t", "o", ":", "a", "@", "b">>),
    Str(<<"n", "o", "t", " ", "a", " ", "u", "r", "l">>),
    Str(<<>>), Str(<<" ">>), Null, Num(<<"5">>) }

HashFaults == {"none", "unavailable", "badLength"}

\* What crypto.randomBytes(16) may return.
Ivs == {[i \in 1..IvLen |-> i], [i \in 1..IvLen |-> 255 - (3 * i)]}

\* What the clock may read when new Date() is called.
Times == 0..MaxClock

\* The readings a generateToken call on d can see: line 135 is the only read.
ClockReads(d) ==
  IF TypeOf(d) = "object" /\ d.t # "null" /\ ~Truthy(GetProp(d, created_at)) THEN Times ELSE {0}

\* The primitive that throws during a call, if any.
Faults == {"none", "cipher", "createHmac"}

SignArgs ==
  { [kind |-> "Buffer", bytes |-> [i \in 1..(2 * BlockLen) |-> (5 * i) % 256]],
    [kind |-> "Array", bytes |-> <<1, 2, 3>>],
    [kind |-> "string", bytes |-> <<>>],
    [kind |-> "null", bytes |-> <<>>] }

NoBuffer == [kind |-> "undefined", bytes |-> <<>>]

(***************************************************************************)
(* The state: the instance (constructed, encryptionKey, signatureKey,      *)
(* storeUrl) and the arguments it was constructed from; the caller's       *)
(* argument object; the last call with its outcome; the tokens issued for  *)
(* the argument object since the caller built it, with the text and IV of  *)
(* each; and the number of calls that changed the argument object.         *)
(***************************************************************************)
NoArgs == [multipassSecret |-> Undefined, storeUrl |-> Undefined]

NoResult ==
  [op |-> "none", threw |-> FALSE, name |-> "", message |-> "", value |-> <<>>,
   events |-> <<>>, token |-> <<>>, arg |-> Undefined, buf |-> NoBuffer,
   ivs |-> <<>>, dates |-> <<>>, again |-> FALSE]

Occurs(events, e) == \E i \in 1..Len(events) : events[i] = e

\* The record of a call: ivs and dates are the values randomBytes and new Date()
\* returned during it; again tells that the token it returned had been issued
\* before for the same text.
CallResult(op, out, arg, buf, now, iv, fault) ==
  [op |-> op, threw |-> out.threw, name |-> out.name, message |-> out.message,
   value |-> out.value, events |-> out.events, token |-> out.token, arg |-> arg,
   buf |-> buf,
   ivs |-> IF Occurs(out.events, "randomBytes") /\ fault # "randomBytes" THEN <<iv>> ELSE <<>>,
   dates |-> IF Occurs(out.events, "Date.toISOString") THEN <<now>> ELSE <<>>,
   again |-> /\ out.token # <<>>
             /\ \E e \in issued : e.plain = JSONstringify(out.data).text /\ e.token = out.token]

Init ==
  /\ constructed = FALSE
  /\ args = NoArgs
  /\ encryptionKey = <<>>
  /\ signatureKey = <<>>
  /\ storeUrl = InvalidURL
  /\ customerData = Undefined
  /\ result = NoResult
  /\ issued = {}
  /\ mutations = 0

\* new Multipass(secret, url)
Construct ==
  /\ ~constructed
  /\ \E s \in SecretArgs, u \in UrlArgs, hf \in HashFaults :
       LET out == constructor(s, u, hf)
       IN  /\ constructed' = ~out.threw
           /\ args' = [multipassSecret |-> s, storeUrl |-> u]
           /\ encryptionKey' = out.this.encryptionKey
           /\ signatureKey' = out.this.signatureKey
           /\ storeUrl' = out.this.storeUrl
           /\ result' = [NoResult EXCEPT !.op = "constructor", !.threw = out.threw,
                                         !.name = out.name, !.message = out.message,
                                         !.events = out.events]
  /\ UNCHANGED <<customerData, issued, mutations>>

\* The caller builds the argument of its next request.
NewCustomerData ==
  /\ constructed
  /\ \E v \in CustomerObjects \cup Primitives : customerData' = v
  /\ issued' = {}
  /\ mutations' = 0
  /\ result' = NoResult
  /\ UNCHANGED <<constructed, args, encryptionKey, signatureKey, storeUrl>>

\* multipass.sign(x)
Sign ==
  /\ constructed
  /\ \E x \in SignArgs :
     \E fault \in (IF IsBuffer(x) THEN {"none", "createHmac"} ELSE {"none"}) :
       result' = CallResult("sign", sign(This, x, fault), Undefined, x, 0, <<>>, fault)
  /\ UNCHANGED <<constructed, args, encryptionKey, signatureKey, storeUrl, customerData,
                 issued, mutations>>

\* The argument object after a call, and the count of the calls that changed it.
Mutate(out) ==
  /\ customerData' = out.data
  /\ mutations' = IF out.data = customerData THEN mutations ELSE mutations + 1

\* multipass.encrypt(customerData)
Encrypt ==
  /\ constructed
  /\ \E iv \in Ivs, fault \in Faults \ {"createHmac"} :
       LET out == encrypt(This, customerData, iv, fault)
       IN  /\ result' = CallResult("encrypt", out, customerData, NoBuffer, 0, iv, fault)
           /\ Mutate(out)
  /\ UNCHANGED <<constructed, args, encryptionKey, signatureKey, storeUrl, issued>>

\* The tokens issued for the argument object, with the text and IV of each.
Issue(out, iv) ==
  IF out.token = <<>> THEN issued
  ELSE issued \cup {[plain |-> JSONstringify(out.data).text, iv |-> iv, token |-> out.token]}

\* multipass.generateToken(customerData)
GenerateToken ==
  /\ constructed
  /\ mutations < MaxMutations
  /\ \E now \in ClockReads(customerData), iv \in Ivs, fault \in Faults :
       LET out == generateToken(This, customerData, now, iv, fault)
       IN  /\ result' = CallResult("generateToken", out, customerData, NoBuffer, now, iv, fault)
           /\ Mutate(out)
           /\ issued' = Issue(out, iv)
  /\ UNCHANGED <<constructed, args, encryptionKey, signatureKey, storeUrl>>

\* multipass.generateLoginUrl(customerData)
GenerateLoginUrl ==
  /\ constructed
  /\ mutations < MaxMutations
  /\ \E now \in ClockReads(customerData), iv \in Ivs, fault \in Faults :
       LET out == generateLoginUrl(This, customerData, now, iv, fault)
       IN  /\ result' = CallResult("generateLoginUrl", out, customerData, NoBuffer, now, iv,
                                    fault)
           /\ Mutate(out)
           /\ issued' = Issue(out, iv)
  /\ UNCHANGED <<constructed, args, encryptionKey, signatureKey, storeUrl>>

Next ==
  \/ Construct
  \/ NewCustomerData
  \/ Sign
  \/ Encrypt
  \/ GenerateToken
  \/ GenerateLoginUrl

Spec == Init /\ [][Next]_vars

(***************************************************************************)
(* The receiver of a token, as section 6 of the specification gives it:    *)
(* base64url-decode, split, verify the HMAC, decrypt.  The repository      *)
(* holds no decoder.                                                       *)
(***************************************************************************)
B64Index == [c \in {B64[i] : i \in 1..64} |-> (CHOOSE i \in 1..64 : B64[i] = c) - 1]

Base64UrlDecode(token) ==
  LET t == ReplaceAll(ReplaceAll(token, "-", "+"), "_", "/")
      sextet(k) == IF k <= Len(t) THEN B64Index[t[k]] ELSE 0
  IN  [j \in 1..((Len(t) * 3) \div 4) |->
         LET g == (j - 1) \div 3
             r == (j - 1) % 3
         IN  IF r = 0 THEN (sextet((4 * g) + 1) * 4) + (sextet((4 * g) + 2) \div 16)
             ELSE IF r = 1
             THEN ((sextet((4 * g) + 2) % 16) * 16) + (sextet((4 * g) + 3) \div 4)
             ELSE ((sextet((4 * g) + 3) % 4) * 64) + sextet((4 * g) + 4)]

\* The inverse of the keyed block permutation.
BlockDecrypt(key, block) ==
  [j \in 1..BlockLen |->
     LET i == IF j = 1 THEN BlockLen ELSE j - 1
     IN  XorByte(((block[i] + 256) - (7 * i)) % 256, key[i])]

Aes128CbcDecrypt(key, iv, ciphertext) ==
  LET padded == [k \in 1..Len(ciphertext) |->
                   LET j    == (k - 1) \div BlockLen
                       c    == Slice(ciphertext, j * BlockLen, (j + 1) * BlockLen)
                       prev == IF j = 0 THEN iv
                               ELSE Slice(ciphertext, (j - 1) * BlockLen, j * BlockLen)
                   IN  XorByte(BlockDecrypt(key, c)[((k - 1) % BlockLen) + 1],
                               prev[((k - 1) % BlockLen) + 1])]
      pad == IF padded = <<>> THEN 0 ELSE padded[Len(padded)]
  IN  IF pad \in 1..BlockLen /\ pad <= Len(padded)
      THEN SubSeq(padded, 1, Len(padded) - pad)
      ELSE <<>>

Receive(this, token) ==
  LET bytes      == Base64UrlDecode(token)
      n          == Len(bytes)
      iv         == Slice(bytes, 0, IvLen)
      ciphertext == Slice(bytes, IvLen, n - HashLen)
      signature  == Slice(bytes, n - HashLen, n)
      verified   == n >= IvLen + BlockLen + HashLen
                    /\ HmacSHA256(this.signatureKey, iv \o ciphertext) = signature
  IN  [verified |-> verified,
       text |-> IF verified
                THEN FromUtf8(Aes128CbcDecrypt(this.encryptionKey, iv, ciphertext))
                ELSE <<>>]

(***************************************************************************)
(* Properties.                                                             *)
(***************************************************************************)
IsObject(v) == TypeOf(v) = "object" /\ v.t # "null"

TokenAlphabet == Alpha \cup Digits \cup {"-", "_"}

\* C1: a generateLoginUrl call that returns yields an absolute URL with the
\* scheme and host of the storeUrl, no query and no fragment, whose path is
\* /account/login/multipass/ followed by the non-empty token of the call, made
\* only of characters of [A-Za-z0-9_-], which percent-encoding leaves as it is.
C1_LoginUrlShape ==
  (result.op = "generateLoginUrl" /\ ~result.threw) =>
    LET url   == ParseURL(result.value)
        token == SubSeq(url.path, Len(LoginPath) + 1, Len(url.path))
    IN  /\ url.ok /\ url.hasHost /\ ~url.opaque
        /\ url.scheme = storeUrl.scheme
        /\ url.host = storeUrl.host
        /\ url.port = storeUrl.port
        /\ url.query = <<>> /\ url.fragment = <<>>
        /\ Href(url) = result.value
        /\ SubSeq(url.path, 1, Len(LoginPath)) = LoginPath
        /\ token # <<>>
        /\ token = result.token
        /\ \A i \in 1..Len(token) : token[i] \in TokenAlphabet
        /\ EncodeURIComponent(token) = token

\* C1's case: a URL returned for a storeUrl that carries a path, a query and a
\* fragment, with a token long enough to hold three cipher blocks.
C1_Witness ==
  /\ result.op = "generateLoginUrl" /\ ~result.threw
  /\ IsObject(result.arg)
  /\ storeUrl.query # <<>> /\ storeUrl.fragment # <<>> /\ storeUrl.path # <<"/">>
  /\ Len(result.token) > 100

\* C2: a token generateToken returns decodes to IV || ciphertext || signature:
\* the 16 bytes randomBytes returned, then 16k bytes (k >= 1), then the 32-byte
\* HMAC under signatureKey of all the bytes before it, which are the bytes
\* encrypt returned; the cipher is finished before the HMAC is created.
C2_TokenLayout ==
  (result.op = "generateToken" /\ ~result.threw) =>
    LET bytes == Base64UrlDecode(result.value)
        n     == Len(bytes)
        body  == Slice(bytes, 0, n - HashLen)
    IN  /\ Base64Url(bytes) = result.value
        /\ n >= IvLen + BlockLen + HashLen
        /\ (n - (IvLen + HashLen)) % BlockLen = 0
        /\ result.ivs = <<Slice(bytes, 0, IvLen)>>
        /\ Slice(bytes, n - HashLen, n) = HmacSHA256(signatureKey, body)
        /\ body = encrypt(This, customerData, result.ivs[1], "none").value
        /\ \E i, j \in 1..Len(result.events) :
             /\ i < j
             /\ result.events[i] = "cipher.final"
             /\ result.events[j] = "createHmac"

\* C2's case: a returned token whose ciphertext is one block (k = 1).
C2_Witness ==
  /\ result.op = "generateToken" /\ ~result.threw
  /\ Len(Base64UrlDecode(result.value)) = IvLen + BlockLen + HashLen

\* C3: the receiver, with the keys of the same secret, verifies the signature
\* of every token generateToken returns and decrypts it to the JSON text of the
\* attributes as the call left them, created_at being the value the caller
\* supplied or the timestamp the call read.
C3_RoundTrip ==
  (result.op = "generateToken" /\ ~result.threw) =>
    /\ Receive(This, result.value).verified
    /\ Receive(This, result.value).text = JSONstringify(customerData).text
    /\ GetProp(customerData, created_at) =
         IF result.dates = <<>> THEN GetProp(result.arg, created_at)
         ELSE Str(ToISOString(result.dates[1]))

\* C3's case: a token for attributes with a nested address sequence and an
\* escaped character, created_at injected by the call.
C3_Witness ==
  /\ result.op = "generateToken" /\ ~result.threw
  /\ result.dates # <<>>
  /\ HasProp(customerData, <<"a", "d", "d", "r", "e", "s", "s", "e", "s">>)
  /\ Receive(This, result.value).verified

SecretMessage == "Invalid multipassSecret: Expected a non-empty string."
UrlMessages == {"Invalid storeUrl: Expected a non-empty string.",
                "Invalid storeUrl: Must be a valid URL string."}

\* A secret that is empty or no string.
BadSecret(v) == v.t # "string" \/ v.s = <<>>

\* A storeUrl that is empty, no string, or no absolute URL.
BadUrl(v) == v.t # "string" \/ v.s = <<>> \/ ~ParseURL(v.s).ok

\* C4: the constructor called with a bad secret or a bad storeUrl throws a
\* configuration error and leaves no instance and no key, without hashing
\* anything; a bad secret is reported whatever the storeUrl is.
C4_ConstructorRejects ==
  (result.op = "constructor"
   /\ (BadSecret(args.multipassSecret) \/ BadUrl(args.storeUrl))) =>
    /\ result.threw
    /\ result.name = "Error"
    /\ result.message \in {SecretMessage} \cup UrlMessages
    /\ BadSecret(args.multipassSecret) => result.message = SecretMessage
    /\ ~constructed
    /\ encryptionKey = <<>> /\ signatureKey = <<>> /\ storeUrl = InvalidURL
    /\ ~Occurs(result.events, "createHash")

\* C4's case: a constructor call whose two arguments are both bad.
C4_Witness ==
  /\ result.op = "constructor" /\ result.threw
  /\ BadSecret(args.multipassSecret)
  /\ args.storeUrl.t = "string" /\ args.storeUrl.s # <<>> /\ ~ParseURL(args.storeUrl.s).ok

ValidationMessage == "Invalid customerData: Expected a non-empty object"

\* C5: generateLoginUrl called with an argument that is no non-null object
\* throws its validation error and returns nothing, before anything else runs:
\* no primitive is invoked, no token is made, the argument stays as it was.
C5_LoginUrlRejects ==
  (result.op = "generateLoginUrl" /\ ~IsObject(result.arg)) =>
    /\ result.threw
    /\ result.name = "Error"
    /\ result.message = ValidationMessage
    /\ result.value = <<>> /\ result.token = <<>>
    /\ result.events = <<>> /\ result.ivs = <<>> /\ result.dates = <<>>
    /\ customerData = result.arg
    /\ issued = {} /\ mutations = 0

\* C5's case: generateLoginUrl called with a string.
C5_Witness ==
  /\ result.op = "generateLoginUrl" /\ result.threw
  /\ result.arg.t = "string"

TokenOps == {"generateToken", "generateLoginUrl"}

\* C6 as stated: a token that generateToken returns was never issued before
\* for the same attributes.
C6_NeverRepeats ==
  (result.op \in TokenOps /\ result.token # <<>>) => ~result.again

\* C6, amended: two tokens issued for the same attribute text are equal exactly
\* when the IVs randomBytes returned for them are equal.
C6_DiffersWithIv ==
  \A e1, e2 \in issued :
    e1.plain = e2.plain => (e1.token = e2.token <=> e1.iv = e2.iv)

\* C6's case: two tokens issued for the same attribute text.
C6_Witness ==
  \E e1, e2 \in issued : e1 # e2 /\ e1.plain = e2.plain /\ e1.iv # e2.iv

\* C7: once constructed, the keys are the two 16-byte halves of the SHA-256
\* hash of the secret the constructor was given, and storeUrl is the URL it was
\* given, after any sequence of calls.
C7_KeysFixed ==
  constructed =>
    /\ Len(encryptionKey) = KeyLen /\ Len(signatureKey) = KeyLen
    /\ encryptionKey = SubSeq(SHA256(Utf8(args.multipassSecret.s)), 1, KeyLen)
    /\ signatureKey = SubSeq(SHA256(Utf8(args.multipassSecret.s)), KeyLen + 1, 2 * KeyLen)
    /\ storeUrl = ParseURL(args.storeUrl.s)

\* C7's case: a constructed instance after a generateLoginUrl call that
\* returned, having issued a token and stamped the argument object once.
C7_Witness ==
  /\ constructed
  /\ result.op = "generateLoginUrl" /\ ~result.threw
  /\ mutations = 1 /\ issued # {}

\* The properties other than created_at are those of before, in their places.
OthersKept(before, after) ==
  /\ Len(after.c) = Len(before.c) + (IF HasProp(before, created_at) THEN 0 ELSE 1)
  /\ \A i \in 1..Len(before.c) :
       /\ after.c[i].k = before.c[i].k
       /\ before.c[i].k # created_at => after.c[i] = before.c[i]
  /\ after.t = before.t

\* C8 as stated: a created_at the caller supplied, whatever its value, is in
\* the attributes after generateToken as it was before.
C8_SuppliedKept ==
  (result.op = "generateToken" /\ IsObject(result.arg)
   /\ HasProp(result.arg, created_at)) =>
    GetProp(customerData, created_at) = GetProp(result.arg, created_at)

\* C8, amended: generateToken sets created_at to the timestamp it reads exactly
\* when the created_at of the attributes is absent or falsy; a truthy one stays
\* as it is; the other properties stay as they are; and the argument object
\* is changed by at most one call.
C8_CreatedAt ==
  /\ mutations <= 1
  /\ (result.op = "generateToken" /\ IsObject(result.arg)) =>
       /\ OthersKept(result.arg, customerData)
       /\ IF Truthy(GetProp(result.arg, created_at))
          THEN customerData = result.arg /\ result.dates = <<>>
          ELSE /\ Len(result.dates) = 1
               /\ GetProp(customerData, created_at) = Str(ToISOString(result.dates[1]))

\* C8's case: a second generateToken call on an object the first call stamped.
C8_Witness ==
  /\ result.op = "generateToken" /\ ~result.threw
  /\ mutations = 1
  /\ customerData = result.arg
  /\ result.again

EncryptFailed == "console.error: Encryption failed:"
SignFailed == "console.error: An error occurred while signing:"

\* C9: when encrypt or sign throws inside generateToken, the call throws
\* "Token generation failed" and returns no token; generateLoginUrl throws the
\* same error and builds no URL.
C9_FailureSurfaces ==
  (result.op \in TokenOps
   /\ (Occurs(result.events, EncryptFailed) \/ Occurs(result.events, SignFailed))) =>
    /\ result.threw
    /\ result.name = "Error"
    /\ result.message = "Token generation failed"
    /\ result.value = <<>> /\ result.token = <<>>
    /\ ~Occurs(result.events, "URL")
    /\ ~Occurs(result.events, "hmac.digest")

\* C9's case: generateLoginUrl on attributes that encrypt, with an HMAC
\* primitive that throws.
C9_Witness ==
  /\ result.op = "generateLoginUrl" /\ result.threw
  /\ Occurs(result.events, "cipher.final")
  /\ Occurs(result.events, SignFailed)

CryptoEvents == {"randomBytes", "createCipheriv", "cipher.update", "cipher.final",
                 "createHmac", "hmac.update", "hmac.digest"}

\* C10 as stated: encrypt called with null or a non-object, and sign called
\* with a non-buffer, throw a TypeError before any cryptographic primitive is
\* invoked and return nothing.
C10_TypeErrors ==
  /\ (result.op = "encrypt" /\ ~IsObject(result.arg)) =>
       /\ result.threw /\ result.name = "TypeError"
       /\ result.value = <<>>
       /\ \A i \in 1..Len(result.events) : result.events[i] \notin CryptoEvents
  /\ (result.op = "sign" /\ ~IsBuffer(result.buf)) =>
       /\ result.threw /\ result.name = "TypeError"
       /\ result.value = <<>>
       /\ \A i \in 1..Len(result.events) : result.events[i] \notin CryptoEvents

=============================================================================
